---- MODULE Spec2Model ----
(***************************************************************************)
(* Field gathering of FBPIC on the GPU (particles/gathering/cuda_methods): *)
(* the kernels gather_field_gpu_linear and gather_field_gpu_cubic, one     *)
(* CUDA thread per particle index.                                         *)
(*                                                                         *)
(* Reals are modelled as exact rationals <<num, den>> (den > 0, lowest     *)
(* terms), so the arithmetic is that of the source with rounding left out. *)
(* Complex numbers are pairs <<re, im>>.                                   *)
(***************************************************************************)
EXTENDS Integers, Sequences, FiniteSets, TLC

\* ------------------------------------------------------------------------
\* Bounds of the model
\* ------------------------------------------------------------------------
\* Largest number of particles of a launch of the concurrent specification.
MaxParticles == 2
\* Cells added to the smallest admissible grid, per axis.
ExtraCells == 1
\* Largest cell count per axis of the unconstrained (pathological) grids.
MaxCells == 2

\* ------------------------------------------------------------------------
\* Exact rational arithmetic (float64 of the source, without rounding)
\* ------------------------------------------------------------------------
Abs(a) == IF a < 0 THEN -a ELSE a

RECURSIVE GCD(_, _)
GCD(a, b) == IF b = 0 THEN a ELSE GCD(b, a % b)

\* (Values used more than once are passed as operator arguments throughout:
\* TLC evaluates an argument once.)
Reduce(n, d, g) == IF d < 0 THEN <<(-n) \div g, (-d) \div g>> ELSE <<n \div g, d \div g>>
Q(n, d) == IF n = 0 THEN <<0, 1>> ELSE Reduce(n, d, GCD(Abs(n), Abs(d)))

I2Q(k) == <<k, 1>>
QAddOver(a, b, g) == Q(a[1] * (b[2] \div g) + b[1] * (a[2] \div g), (a[2] \div g) * b[2])
QAdd(a, b) == QAddOver(a, b, GCD(a[2], b[2]))
QNeg(a) == <<-a[1], a[2]>>
QSub(a, b) == QAdd(a, QNeg(b))
QMulOver(a, b, g1, g2) ==
    Q((a[1] \div g1) * (b[1] \div g2), (a[2] \div g2) * (b[2] \div g1))
QMul(a, b) ==
    IF a[1] = 0 \/ b[1] = 0 THEN <<0, 1>>
    ELSE QMulOver(a, b, GCD(Abs(a[1]), b[2]), GCD(Abs(b[1]), a[2]))
QInv(a) == Q(a[2], a[1])
QCube(a) == QMul(a, QMul(a, a))
QSquare(a) == QMul(a, a)
\* math.floor followed by int(): the largest integer <= a
QFloor(a) == a[1] \div a[2]
QLess(a, b) == a[1] * b[2] < b[1] * a[2]

Zero == I2Q(0)
One == I2Q(1)
Half == Q(1, 2)
Sixth == Q(1, 6)

\* math.sqrt on the sums of squares the model draws (perfect squares)
Sqrt(n) == CHOOSE s \in 0..n : s * s = n

\* ------------------------------------------------------------------------
\* Cylindrical conversion (both kernels)
\* ------------------------------------------------------------------------
\* Mutant of Cylindrical: the division is not guarded, and cos and sin of a
\* particle on the axis come out as 0
CylindricalUnguarded(xj, yj) ==
    IF xj = 0 /\ yj = 0
    THEN [rj |-> 0, cos |-> Zero, sin |-> Zero]
    ELSE [rj |-> Sqrt(xj * xj + yj * yj),
          cos |-> Q(xj, Sqrt(xj * xj + yj * yj)),
          sin |-> Q(yj, Sqrt(xj * xj + yj * yj))]

\* rj = sqrt(xj**2 + yj**2); cos, sin by division by rj, or (1, 0) on the axis
Cylindrical(xj, yj) ==
    LET rj == Sqrt(xj * xj + yj * yj)
    IN  IF rj # 0
        THEN LET invr == QInv(I2Q(rj))
             IN  [rj |-> rj, cos |-> QMul(I2Q(xj), invr), sin |-> QMul(I2Q(yj), invr)]
        ELSE [rj |-> rj, cos |-> One, sin |-> Zero]

\* exptheta_m0 = 1. ; exptheta_m1 = cos - 1.j*sin
Exptheta(m, cos, sin) == IF m = 0 THEN <<One, Zero>> ELSE <<cos, QNeg(sin)>>

\* Position in cell units: inv*(pos - min) - 0.5
CellCoord(inv, pos, min) == QSub(QMul(inv, I2Q(pos - min)), Half)

\* ------------------------------------------------------------------------
\* Linear stencil
\* ------------------------------------------------------------------------
\* Mutant of LinearAxis: the two weights are exchanged
LinearAxisSwapped(c) ==
    [lower |-> QFloor(c), upper |-> QFloor(c) + 1,
     S_lower |-> QSub(c, I2Q(QFloor(c))),
     S_upper |-> QSub(I2Q(QFloor(c) + 1), c)]

\* Lower and upper index and weight of one axis, before boundary handling
LinearAxis(c) ==
    LET lower == QFloor(c)
        upper == lower + 1
    IN  [lower |-> lower, upper |-> upper,
         S_lower |-> QSub(I2Q(upper), c),
         S_upper |-> QSub(c, I2Q(lower))]

\* Mutant of LinearRadialBoundary: the upper index is not clamped
LinearRadialBoundaryLowerOnly(a, Nr) ==
    [ir_lower |-> IF a.lower < 0 THEN 0
                  ELSE IF a.lower > Nr - 1 THEN Nr - 1 ELSE a.lower,
     ir_upper |-> a.upper,
     Sr_lower |-> IF a.lower < 0 THEN Zero ELSE a.S_lower,
     Sr_upper |-> a.S_upper,
     Sr_guard |-> IF a.lower < 0 THEN a.S_lower ELSE Zero]

\* Guard cells in lower r, then absorbing in upper r
LinearRadialBoundary(a, Nr) ==
    LET guarded == a.lower < 0
        l1 == IF guarded THEN 0 ELSE a.lower
        l2 == IF l1 > Nr - 1 THEN Nr - 1 ELSE l1
        u2 == IF a.upper > Nr - 1 THEN Nr - 1 ELSE a.upper
    IN  [ir_lower |-> l2, ir_upper |-> u2,
         Sr_lower |-> IF guarded THEN Zero ELSE a.S_lower,
         Sr_upper |-> a.S_upper,
         Sr_guard |-> IF guarded THEN a.S_lower ELSE Zero]

\* Mutant of WrapZ: the upper z boundary is not treated
WrapZLowerOnly(i, Nz) == IF i < 0 THEN i + Nz ELSE i

\* One axial index: += Nz if negative, then -= Nz if above Nz-1
\* (lower and upper z boundaries are two successive tests, not a modulo)
WrapZ(i, Nz) ==
    LET a == IF i < 0 THEN i + Nz ELSE i
    IN  IF a > Nz - 1 THEN a - Nz ELSE a

LinearAxialBoundary(a, Nz) ==
    [iz_lower |-> WrapZ(a.lower, Nz), iz_upper |-> WrapZ(a.upper, Nz),
     Sz_lower |-> a.S_lower, Sz_upper |-> a.S_upper]

\* S_ll .. S_ug: the precalculated products of the axial and radial weights
LinearShapes(r, z) ==
    [S_ll |-> QMul(z.Sz_lower, r.Sr_lower), S_lu |-> QMul(z.Sz_lower, r.Sr_upper),
     S_ul |-> QMul(z.Sz_upper, r.Sr_lower), S_uu |-> QMul(z.Sz_upper, r.Sr_upper),
     S_lg |-> QMul(z.Sz_lower, r.Sr_guard), S_ug |-> QMul(z.Sz_upper, r.Sr_guard)]

\* ------------------------------------------------------------------------
\* Cubic stencil
\* ------------------------------------------------------------------------
\* ir[0..3] / iz[0..3] before boundary handling
CubicIndices(c) == [k \in 0..3 |-> QFloor(c) - 1 + k]

\* Mutant of CubicWeights: the last weight is taken at offset 1 instead of 2
CubicWeightsShifted(c) ==
    [k \in 0..3 |->
       CASE k = 0 -> QMul(QNeg(Sixth), QCube(QSub(QSub(c, I2Q(QFloor(c) - 1)), I2Q(2))))
         [] k = 1 -> QMul(Sixth, QAdd(QSub(QMul(I2Q(3), QCube(QSub(c, I2Q(QFloor(c))))),
                          QMul(I2Q(6), QSquare(QSub(c, I2Q(QFloor(c)))))), I2Q(4)))
         [] k = 2 -> QMul(Sixth, QAdd(QSub(QMul(I2Q(3), QCube(QSub(I2Q(QFloor(c) + 1), c))),
                          QMul(I2Q(6), QSquare(QSub(I2Q(QFloor(c) + 1), c)))), I2Q(4)))
         [] OTHER -> QMul(QNeg(Sixth), QCube(QSub(QSub(I2Q(QFloor(c) + 2), c), I2Q(1))))]

\* Sr[0..3] / Sz[0..3] before boundary handling
CubicWeights(c) ==
    LET i == CubicIndices(c)
        d0 == QSub(QSub(c, I2Q(i[0])), I2Q(2))
        d1 == QSub(c, I2Q(i[1]))
        d2 == QSub(I2Q(i[2]), c)
        d3 == QSub(QSub(I2Q(i[3]), c), I2Q(2))
        mid(d) == QMul(Sixth, QAdd(QSub(QMul(I2Q(3), QCube(d)),
                                        QMul(I2Q(6), QSquare(d))), I2Q(4)))
        S0 == QMul(QNeg(Sixth), QCube(d0))
        S3 == QMul(QNeg(Sixth), QCube(d3))
    IN  [k \in 0..3 |-> CASE k = 0 -> S0 [] k = 1 -> mid(d1)
                          [] k = 2 -> mid(d2) [] OTHER -> S3]

\* Lower and upper periodic boundary for z, index by index
CubicAxialBoundary(iz, Sz, Nz) ==
    [i |-> [k \in 0..3 |-> WrapZ(iz[k], Nz)], S |-> Sz]

\* Mutant of CubicRadialPoint: the weight of a reflected point is not negated
CubicRadialPointNoFlip(k, w, Nr) ==
    IF k < 0
    THEN <<IF Abs(k) - 1 > Nr - 1 THEN Nr - 1 ELSE Abs(k) - 1, w>>
    ELSE <<IF k > Nr - 1 THEN Nr - 1 ELSE k, w>>

\* One radial point (k, w) after the two tests of the loop body
CubicRadialPoint(k, w, Nr) ==
    LET neg == k < 0
        k1 == IF neg THEN Abs(k) - 1 ELSE k
        w1 == IF neg THEN QMul(QNeg(One), w) ELSE w
        k2 == IF k1 > Nr - 1 THEN Nr - 1 ELSE k1
    IN  <<k2, w1>>

\* Lower and upper boundary for r
CubicRadialBoundary(ir, Sr, Nr) ==
    [i |-> [k \in 0..3 |-> CubicRadialPoint(ir[k], Sr[k], Nr)[1]],
     S |-> [k \in 0..3 |-> CubicRadialPoint(ir[k], Sr[k], Nr)[2]]]

\* ------------------------------------------------------------------------
\* Mode accumulators (inline_functions.add_*_gather_for_mode)
\* ------------------------------------------------------------------------
\* A grid read field[iz, ir]; outside the array the read is undefined and
\* yields the value g chosen by the environment.
Read(field, iz, ir, g) ==
    IF iz \in DOMAIN field /\ ir \in DOMAIN field[iz] THEN field[iz][ir] ELSE g

\* The sums below are the sums of the terms Re(exptheta_m * field[iz, ir]) * S
\* over the stencil points.  They are evaluated over the common denominator
\* of the weights and of the phase, which leaves every value what the
\* term-by-term rational sum is.
LCM(a, b) == (a \div GCD(a, b)) * b
\* Numerator of the rational a over the denominator D (a multiple of a[2])
Over(a, D) == a[1] * (D \div a[2])
\* Numerator of Re(phase * v) over the denominator P of the phase
ReNum(phase, P, v) == Over(phase[1], P) * v[1] - Over(phase[2], P) * v[2]

\* Sum over the four (axial, radial) combinations; the guard shapes S_lg and
\* S_ug are not added.
LinearSumOver(exptheta_m, field, st, S, g, P, D) ==
    Q(ReNum(exptheta_m, P, Read(field, st.iz_lower, st.ir_lower, g)) * Over(S.S_ll, D)
        + ReNum(exptheta_m, P, Read(field, st.iz_lower, st.ir_upper, g)) * Over(S.S_lu, D)
        + ReNum(exptheta_m, P, Read(field, st.iz_upper, st.ir_lower, g)) * Over(S.S_ul, D)
        + ReNum(exptheta_m, P, Read(field, st.iz_upper, st.ir_upper, g)) * Over(S.S_uu, D),
      P * D)
LinearSum(exptheta_m, field, st, S, g) ==
    LinearSumOver(exptheta_m, field, st, S, g,
                  LCM(exptheta_m[1][2], exptheta_m[2][2]),
                  LCM(LCM(S.S_ll[2], S.S_lu[2]), LCM(S.S_ul[2], S.S_uu[2])))

add_linear_gather_for_mode(F, exptheta_m, Fr_grid, Ft_grid, Fz_grid, st, S, g) ==
    <<QAdd(F[1], LinearSum(exptheta_m, Fr_grid, st, S, g)),
      QAdd(F[2], LinearSum(exptheta_m, Ft_grid, st, S, g)),
      QAdd(F[3], LinearSum(exptheta_m, Fz_grid, st, S, g))>>

\* Sum of f[0] .. f[n]
RECURSIVE ISum(_, _)
ISum(f, n) == IF n < 0 THEN 0 ELSE f[n] + ISum(f, n - 1)

\* Common denominator of the four weights of an axis
Denom4(S) == LCM(LCM(S[0][2], S[1][2]), LCM(S[2][2], S[3][2]))

\* Sum over the 4 x 4 combinations, weight Sz[kz] * Sr[kr]
CubicSumOver(exptheta_m, field, ir, iz, wr, wz, g, P, D) ==
    Q(ISum([kz \in 0..3 |-> wz[kz] * ISum([kr \in 0..3 |->
            ReNum(exptheta_m, P, Read(field, iz[kz], ir[kr], g)) * wr[kr]], 3)], 3),
      P * D)
CubicSumIn(exptheta_m, field, ir, iz, Sr, Sz, g, P, Dr, Dz) ==
    CubicSumOver(exptheta_m, field, ir, iz,
                 [k \in 0..3 |-> Over(Sr[k], Dr)], [k \in 0..3 |-> Over(Sz[k], Dz)],
                 g, P, Dr * Dz)
CubicSum(exptheta_m, field, ir, iz, Sr, Sz, g) ==
    CubicSumIn(exptheta_m, field, ir, iz, Sr, Sz, g,
               LCM(exptheta_m[1][2], exptheta_m[2][2]), Denom4(Sr), Denom4(Sz))

add_cubic_gather_for_mode(F, exptheta_m, Fr_grid, Ft_grid, Fz_grid, ir, iz, Sr, Sz, g) ==
    <<QAdd(F[1], CubicSum(exptheta_m, Fr_grid, ir, iz, Sr, Sz, g)),
      QAdd(F[2], CubicSum(exptheta_m, Ft_grid, ir, iz, Sr, Sz, g)),
      QAdd(F[3], CubicSum(exptheta_m, Fz_grid, ir, iz, Sr, Sz, g))>>

\* ------------------------------------------------------------------------
\* Conversion to Cartesian coordinates
\* ------------------------------------------------------------------------
\* Mutant of Cartesian: the rotation is applied with the opposite sign
CartesianOpposite(cos, sin, F) ==
    <<QAdd(QMul(cos, F[1]), QMul(sin, F[2])),
      QSub(QMul(cos, F[2]), QMul(sin, F[1])),
      F[3]>>

\* cos*Fr - sin*Ft, sin*Fr + cos*Ft, Fz
Cartesian(cos, sin, F) ==
    <<QSub(QMul(cos, F[1]), QMul(sin, F[2])),
      QAdd(QMul(sin, F[1]), QMul(cos, F[2])),
      F[3]>>

\* ------------------------------------------------------------------------
\* State
\* ------------------------------------------------------------------------
VARIABLES
    kernel,                 \* "linear" or "cubic": the kernel that is launched
    x, y, z,                \* particle positions, arrays over 0..N-1
    invdz, zmin, Nz,        \* axial geometry
    invdr, rmin, Nr,        \* radial geometry
    grid,                   \* the twelve field arrays, by parameter name
    Ex, Ey, Ez, Bx, By, Bz, \* the fields on the particles, arrays over 0..N-1
    pc,                     \* position of each CUDA thread in the kernel
    loc,                    \* thread-local values (cos, sin, stencils)
    acc,                    \* thread-local Fr, Ft, Fz of the E and of the B pass
    again,                  \* TRUE in the second call on the same arguments
    first                   \* the outputs as the first call left them

inputs == <<kernel, x, y, z, invdz, zmin, Nz, invdr, rmin, Nr, grid>>
outputs == <<Ex, Ey, Ez, Bx, By, Bz>>
vars == <<inputs, outputs, pc, loc, acc, again, first>>

\* x.shape[0]
NumParticles == Cardinality(DOMAIN x)
\* The launch covers the particles with one surplus thread.
Threads == 0..NumParticles

NoLocals == <<>>
NoAcc == [E |-> <<Zero, Zero, Zero>>, B |-> <<Zero, Zero, Zero>>]

\* ------------------------------------------------------------------------
\* Kernel bodies, per particle
\* ------------------------------------------------------------------------
\* Lines "Position" to "Precalculate Shapes" of gather_field_gpu_linear
LinearBounded(cyl, r_cell, z_cell, raw_r, raw_z, r, zz) ==
    [cos |-> cyl.cos, sin |-> cyl.sin, rj |-> cyl.rj,
     r_cell |-> r_cell, z_cell |-> z_cell,
     raw_r |-> raw_r, raw_z |-> raw_z,
     ir_lower |-> r.ir_lower, ir_upper |-> r.ir_upper,
     iz_lower |-> zz.iz_lower, iz_upper |-> zz.iz_upper,
     Sr_lower |-> r.Sr_lower, Sr_upper |-> r.Sr_upper, Sr_guard |-> r.Sr_guard,
     Sz_lower |-> zz.Sz_lower, Sz_upper |-> zz.Sz_upper,
     S |-> LinearShapes(r, zz)]
LinearWeighted(cyl, r_cell, z_cell, raw_r, raw_z) ==
    LinearBounded(cyl, r_cell, z_cell, raw_r, raw_z,
                  LinearRadialBoundary(raw_r, Nr), LinearAxialBoundary(raw_z, Nz))
LinearInCell(cyl, r_cell, z_cell) ==
    LinearWeighted(cyl, r_cell, z_cell, LinearAxis(r_cell), LinearAxis(z_cell))
LinearInCyl(cyl, zj) ==
    LinearInCell(cyl, CellCoord(invdr, cyl.rj, rmin), CellCoord(invdz, zj, zmin))
LinearLocals(xj, yj, zj) == LinearInCyl(Cylindrical(xj, yj), zj)

\* Lines "Position" to "Lower and upper boundary for r" of gather_field_gpu_cubic
CubicBounded(cyl, r_cell, z_cell, raw_ir, raw_Sr, raw_iz, raw_Sz, rb, zb) ==
    [cos |-> cyl.cos, sin |-> cyl.sin, rj |-> cyl.rj,
     r_cell |-> r_cell, z_cell |-> z_cell,
     raw_ir |-> raw_ir, raw_Sr |-> raw_Sr, raw_iz |-> raw_iz, raw_Sz |-> raw_Sz,
     ir |-> rb.i, Sr |-> rb.S, iz |-> zb.i, Sz |-> zb.S]
CubicWeighted(cyl, r_cell, z_cell, raw_ir, raw_Sr, raw_iz, raw_Sz) ==
    CubicBounded(cyl, r_cell, z_cell, raw_ir, raw_Sr, raw_iz, raw_Sz,
                 CubicRadialBoundary(raw_ir, raw_Sr, Nr),
                 CubicAxialBoundary(raw_iz, raw_Sz, Nz))
CubicInCell(cyl, r_cell, z_cell) ==
    CubicWeighted(cyl, r_cell, z_cell, CubicIndices(r_cell), CubicWeights(r_cell),
                  CubicIndices(z_cell), CubicWeights(z_cell))
CubicInCyl(cyl, zj) ==
    CubicInCell(cyl, CellCoord(invdr, cyl.rj, rmin), CellCoord(invdz, zj, zmin))
CubicLocals(xj, yj, zj) == CubicInCyl(Cylindrical(xj, yj), zj)

\* Fr = Ft = Fz = 0, then mode 0, then mode 1 (E pass: f = "E", B pass: f = "B")
LinearPass(l, f, g) ==
    add_linear_gather_for_mode(
        add_linear_gather_for_mode(<<Zero, Zero, Zero>>, Exptheta(0, l.cos, l.sin),
            grid[<<f, "r", 0>>], grid[<<f, "t", 0>>], grid[<<f, "z", 0>>], l, l.S, g),
        Exptheta(1, l.cos, l.sin),
        grid[<<f, "r", 1>>], grid[<<f, "t", 1>>], grid[<<f, "z", 1>>], l, l.S, g)

CubicPass(l, f, g) ==
    add_cubic_gather_for_mode(
        add_cubic_gather_for_mode(<<Zero, Zero, Zero>>, Exptheta(0, l.cos, l.sin),
            grid[<<f, "r", 0>>], grid[<<f, "t", 0>>], grid[<<f, "z", 0>>],
            l.ir, l.iz, l.Sr, l.Sz, g),
        Exptheta(1, l.cos, l.sin),
        grid[<<f, "r", 1>>], grid[<<f, "t", 1>>], grid[<<f, "z", 1>>],
        l.ir, l.iz, l.Sr, l.Sz, g)

\* Mutant of GridIndex: every thread takes the first entry
GridIndexFirst(t) == 0

\* i = cuda.grid(1): the entry thread t reads and writes
GridIndex(t) == t

\* Mutant of Store: the value is added to what the entry holds
StoreAdded(arr, i, value) == [arr EXCEPT ![i] = QAdd(@, value)]

\* Ex[i] = value: the entry is overwritten
Store(arr, i, value) == [arr EXCEPT ![i] = value]

\* Values the environment may return for a read outside an array; when every
\* index of the stencil is inside, no such read happens
Garbage(iz, ir) ==
    IF iz \subseteq 0..(Nz - 1) /\ ir \subseteq 0..(Nr - 1)
    THEN {<<0, 0>>} ELSE {<<0, 0>>, <<5, 7>>}
LinearGarbage(l) == Garbage({l.iz_lower, l.iz_upper}, {l.ir_lower, l.ir_upper})
CubicGarbage(l) == Garbage({l.iz[k] : k \in 0..3}, {l.ir[k] : k \in 0..3})

\* ------------------------------------------------------------------------
\* Actions: one CUDA thread t of the launched kernel
\* ------------------------------------------------------------------------
\* gather_field_gpu_linear, from the thread index to "Ez[i] = Fz"
LinearE(t) ==
    /\ kernel = "linear"
    /\ pc[t] = "start"
    /\ GridIndex(t) < NumParticles
    /\ \E i \in {GridIndex(t)} :
       \E l \in {LinearLocals(x[i], y[i], z[i])} :
         \E g \in LinearGarbage(l) :
           \E F \in {LinearPass(l, "E", g)} :
             \E C \in {Cartesian(l.cos, l.sin, F)} :
               /\ loc' = [loc EXCEPT ![t] = l]
               /\ acc' = [acc EXCEPT ![t].E = F]
               /\ Ex' = Store(Ex, i, C[1])
               /\ Ey' = Store(Ey, i, C[2])
               /\ Ez' = Store(Ez, i, C[3])
    /\ pc' = [pc EXCEPT ![t] = "wroteE"]
    /\ UNCHANGED <<inputs, Bx, By, Bz, again, first>>

\* gather_field_gpu_linear, from "B-Field" to "Bz[i] = Fz"
LinearB(t) ==
    /\ kernel = "linear"
    /\ pc[t] = "wroteE"
    /\ \E i \in {GridIndex(t)} :
       \E l \in {loc[t]} :
         \E g \in LinearGarbage(l) :
           \E F \in {LinearPass(l, "B", g)} :
             \E C \in {Cartesian(l.cos, l.sin, F)} :
               /\ acc' = [acc EXCEPT ![t].B = F]
               /\ Bx' = Store(Bx, i, C[1])
               /\ By' = Store(By, i, C[2])
               /\ Bz' = Store(Bz, i, C[3])
    /\ pc' = [pc EXCEPT ![t] = "done"]
    /\ UNCHANGED <<inputs, Ex, Ey, Ez, loc, again, first>>

\* gather_field_gpu_cubic, from the thread index to "Ez[i] = Fz"
CubicE(t) ==
    /\ kernel = "cubic"
    /\ pc[t] = "start"
    /\ GridIndex(t) < NumParticles
    /\ \E i \in {GridIndex(t)} :
       \E l \in {CubicLocals(x[i], y[i], z[i])} :
         \E g \in CubicGarbage(l) :
           \E F \in {CubicPass(l, "E", g)} :
             \E C \in {Cartesian(l.cos, l.sin, F)} :
               /\ loc' = [loc EXCEPT ![t] = l]
               /\ acc' = [acc EXCEPT ![t].E = F]
               /\ Ex' = Store(Ex, i, C[1])
               /\ Ey' = Store(Ey, i, C[2])
               /\ Ez' = Store(Ez, i, C[3])
    /\ pc' = [pc EXCEPT ![t] = "wroteE"]
    /\ UNCHANGED <<inputs, Bx, By, Bz, again, first>>

\* gather_field_gpu_cubic, from "B-Field" to "Bz[i] = Fz"
CubicB(t) ==
    /\ kernel = "cubic"
    /\ pc[t] = "wroteE"
    /\ \E i \in {GridIndex(t)} :
       \E l \in {loc[t]} :
         \E g \in CubicGarbage(l) :
           \E F \in {CubicPass(l, "B", g)} :
             \E C \in {Cartesian(l.cos, l.sin, F)} :
               /\ acc' = [acc EXCEPT ![t].B = F]
               /\ Bx' = Store(Bx, i, C[1])
               /\ By' = Store(By, i, C[2])
               /\ Bz' = Store(Bz, i, C[3])
    /\ pc' = [pc EXCEPT ![t] = "done"]
    /\ UNCHANGED <<inputs, Ex, Ey, Ez, loc, again, first>>

\* A thread with i >= x.shape[0] falls through the "if" of either kernel
Skip(t) ==
    /\ pc[t] = "start"
    /\ ~(GridIndex(t) < NumParticles)
    /\ pc' = [pc EXCEPT ![t] = "done"]
    /\ UNCHANGED <<inputs, outputs, loc, acc, again, first>>

AllDone == \A t \in Threads : pc[t] = "done"

\* The caller launches the same kernel a second time on the same arguments
Relaunch ==
    /\ AllDone
    /\ ~again
    /\ again' = TRUE
    /\ first' = outputs
    /\ pc' = [t \in Threads |-> "start"]
    /\ loc' = [t \in Threads |-> NoLocals]
    /\ acc' = [t \in Threads |-> NoAcc]
    /\ UNCHANGED <<inputs, outputs>>

Next ==
    \/ \E t \in Threads : LinearE(t)
    \/ \E t \in Threads : LinearB(t)
    \/ \E t \in Threads : CubicE(t)
    \/ \E t \in Threads : CubicB(t)
    \/ \E t \in Threads : Skip(t)
    \/ Relaunch

\* ------------------------------------------------------------------------
\* Arguments of a launch
\* ------------------------------------------------------------------------
Kernels == {"linear", "cubic"}
ArrayNames == {"E", "B"} \X {"r", "t", "z"} \X {0, 1}

\* Stencil width of the kernel: the smallest admissible Nz and Nr
Width(k) == IF k = "linear" THEN 2 ELSE 4

\* A field whose values differ from point to point and from array to array
GenericValue(a, iz, ir) ==
    LET f == IF a[1] = "E" THEN 1 ELSE 2
        c == CASE a[2] = "r" -> 0 [] a[2] = "t" -> 1 [] OTHER -> 2
    IN  <<((f + 3 * c + 2 * iz * iz + 5 * ir * ir + 7 * a[3] * (iz + 1)) % 11) - 5,
          ((c + 4 * iz + 2 * ir + 3 * a[3] * f) % 5) - 2>>

\* The constant of the uniform fields (one for E, one for B)
UniformValue(f) == IF f = "E" THEN <<3, 2>> ELSE <<-2, 5>>

\* "generic", or "r" / "t" / "z": that mode-0 component uniform, the rest zero
Fixtures == {"generic", "r", "t", "z"}

FieldArrays(fx, nz, nr) ==
    [a \in ArrayNames |-> [iz \in 0..(nz - 1) |-> [ir \in 0..(nr - 1) |->
        IF fx = "generic" THEN GenericValue(a, iz, ir)
        ELSE IF a[2] = fx /\ a[3] = 0 THEN UniformValue(a[1]) ELSE <<0, 0>>]]]

\* The state before the first thread of a launch runs: positions pos (a
\* sequence of <<x, y, z>>), cell size 1/inv on both axes, every output entry
\* holding prior
Launch(k, pos, inv, nz, nr, zm, rm, fx, prior) ==
    LET N == Len(pos)
    IN  /\ kernel = k
        /\ x = [i \in 0..(N - 1) |-> pos[i + 1][1]]
        /\ y = [i \in 0..(N - 1) |-> pos[i + 1][2]]
        /\ z = [i \in 0..(N - 1) |-> pos[i + 1][3]]
        /\ invdz = inv /\ zmin = zm /\ Nz = nz
        /\ invdr = inv /\ rmin = rm /\ Nr = nr
        /\ grid = FieldArrays(fx, nz, nr)
        /\ Ex = [i \in 0..(N - 1) |-> prior] /\ Ey = Ex /\ Ez = Ex
        /\ Bx = Ex /\ By = Ex /\ Bz = Ex
        /\ pc = [t \in 0..N |-> "start"]
        /\ loc = [t \in 0..N |-> NoLocals]
        /\ acc = [t \in 0..N |-> NoAcc]
        /\ again = FALSE
        /\ first = <<>>

\* Cell size 1/inv of the launches drawn below (an integer)
CellSize(inv) == QFloor(QInv(inv))

\* Axial origins and prior output contents drawn below
Origins == {-1}
Seven == I2Q(7)
Quarter == Q(1, 4)

\* Transverse positions <<x, y>> with rj from 0 to hi cells beyond the outer
\* edge along +x, and a few along -y and along the direction (-3, 4)
Radials(d, nr, hi) ==
    {<<r, 0>> : r \in 0..(d * nr + d * hi)}
      \cup {<<0, -1>>, <<0, -(d * nr + 1)>>, <<-3, 4>>, <<-6, 8>>, <<-9, 12>>}

\* Axial positions from lo cells below zmin to hi cells above the upper edge
Axials(d, nz, zm, lo, hi) == {zm + k : k \in (-(d * lo))..(d * nz + d * hi)}

\* Positions <<x, y, z>>: every transverse position at two axial ones, and
\* every axial position at two transverse ones
Positions(d, nz, nr, zm, lo, hi) ==
    {<<p[1], p[2], zm + k>> : p \in Radials(d, nr, 2), k \in {d, d + 1}}
      \cup {<<p[1], p[2], zj>> :
              p \in {<<0, 0>>, <<-3, 4>>}, zj \in Axials(d, nz, zm, lo, hi)}

\* A launch on one particle; the grid is admissible (Nz, Nr >= stencil width,
\* rmin = 0) and the particle lies within a cell and a half of the box axially
InitSingle ==
    \E k \in Kernels, fx \in Fixtures, zm \in Origins, inv \in {Quarter} :
      \E nz \in Width(k)..(Width(k) + ExtraCells), nr \in Width(k)..(Width(k) + ExtraCells) :
        \E p \in Positions(CellSize(inv), nz, nr, zm, 1, 1) :
          Launch(k, <<p>>, inv, nz, nr, zm, 0, fx, Seven)

\* A launch on one particle with no precondition: any grid of 1..MaxCells
\* cells per axis, rmin possibly above the particle, the particle possibly
\* periods away from the box
InitAny ==
    \E k \in Kernels, zm \in Origins, rm \in {0, 8}, inv \in {Half, Quarter} :
      \E nz \in 1..MaxCells, nr \in 1..MaxCells :
        \E p \in Positions(CellSize(inv), nz, nr, zm, nz + 1, 2 * nz) :
          Launch(k, <<p>>, inv, nz, nr, zm, rm, "generic", Seven)

\* Positions of the concurrent launches
PosSmall == {<<0, 0, -2>>, <<-3, 4, 0>>, <<2, 0, 1>>}

RECURSIVE Seqs(_, _)
\* The sequences of length n over S
Seqs(S, n) ==
    IF n = 0 THEN {<<>>} ELSE {Append(q, e) : q \in Seqs(S, n - 1), e \in S}

\* A launch on 1..MaxParticles particles on the smallest admissible grid
Init ==
    \E k \in Kernels, zm \in Origins, prior \in {Zero, Seven} :
      \E n \in 1..MaxParticles :
        \E pos \in Seqs(PosSmall, n) :
          Launch(k, pos, Half, Width(k), Width(k), zm, 0, "generic", prior)

\* What a thread of kernel k leaves in Ex, Ey, Ez and Bx, By, Bz for a particle
\* at (xj, yj, zj) when every grid read is inside the arrays
LinearGathered(l) ==
    <<Cartesian(l.cos, l.sin, LinearPass(l, "E", <<0, 0>>)),
      Cartesian(l.cos, l.sin, LinearPass(l, "B", <<0, 0>>))>>
CubicGathered(l) ==
    <<Cartesian(l.cos, l.sin, CubicPass(l, "E", <<0, 0>>)),
      Cartesian(l.cos, l.sin, CubicPass(l, "B", <<0, 0>>))>>
Locals(xj, yj, zj) ==
    IF kernel = "linear" THEN LinearLocals(xj, yj, zj) ELSE CubicLocals(xj, yj, zj)
Gathered(l) == IF kernel = "linear" THEN LinearGathered(l) ELSE CubicGathered(l)

\* Entry i of the six output arrays
Written(i) == <<<<Ex[i], Ey[i], Ez[i]>>, <<Bx[i], By[i], Bz[i]>>>>

\* Every grid read of a thread that has built its stencil is inside the arrays
StencilInside(t) ==
    IF kernel = "linear"
    THEN /\ {loc[t].iz_lower, loc[t].iz_upper} \subseteq 0..(Nz - 1)
         /\ {loc[t].ir_lower, loc[t].ir_upper} \subseteq 0..(Nr - 1)
    ELSE /\ {loc[t].iz[k] : k \in 0..3} \subseteq 0..(Nz - 1)
         /\ {loc[t].ir[k] : k \in 0..3} \subseteq 0..(Nr - 1)

\* The threads that have built their stencil
Built == {t \in Threads : pc[t] \in {"wroteE", "done"} /\ GridIndex(t) < NumParticles}

Spec == Init /\ [][Next]_vars
SpecSingle == InitSingle /\ [][Next]_vars
SpecAny == InitAny /\ [][Next]_vars

\* ------------------------------------------------------------------------
\* Properties
\* ------------------------------------------------------------------------
Sum4(S) == QAdd(QAdd(S[0], S[1]), QAdd(S[2], S[3]))
IsInteger(c) == c[2] = 1

\* C1: in both kernels, for every particle position and every grid with
\* Nz >= 1 and Nr >= 1, every axial stencil index used for a grid access lies
\* in [0, Nz-1] and every radial one in [0, Nr-1].
C1_IndicesInBounds == \A t \in Built : StencilInside(t)

\* C5: the two linear weights of each axis, and the four cubic weights of each
\* axis, as computed before boundary handling, sum to 1.
C5_PartitionOfUnity ==
    \A t \in Built :
      IF kernel = "linear"
      THEN /\ QAdd(loc[t].raw_r.S_lower, loc[t].raw_r.S_upper) = One
           /\ QAdd(loc[t].raw_z.S_lower, loc[t].raw_z.S_upper) = One
      ELSE /\ Sum4(loc[t].raw_Sr) = One
           /\ Sum4(loc[t].raw_Sz) = One

\* C5 happens: a cubic thread has built weights at a negative axial coordinate
\* that is an odd multiple of a quarter cell, all four weights nonzero.
C5_Witness ==
    \E t \in Built :
      /\ kernel = "cubic"
      /\ loc[t].z_cell[2] = 4 /\ loc[t].z_cell[1] < 0
      /\ \A k \in 0..3 : loc[t].raw_Sz[k] # Zero

\* C9: in the linear kernel, when the cell coordinate of an axis is an integer
\* k, the stencil of that axis before boundary handling is index k with weight
\* 1 and index k+1 with weight 0.
NodeCollapse(c, a) ==
    IsInteger(c) =>
      /\ a.lower = c[1] /\ a.S_lower = One
      /\ a.upper = c[1] + 1 /\ a.S_upper = Zero

C9_NodeCollapse ==
    \A t \in Built :
      kernel = "linear" =>
        /\ NodeCollapse(loc[t].r_cell, loc[t].raw_r)
        /\ NodeCollapse(loc[t].z_cell, loc[t].raw_z)

\* C9 happens: a linear thread has built its stencil on a node of both axes.
C9_Witness ==
    \E t \in Built :
      kernel = "linear" /\ IsInteger(loc[t].r_cell) /\ IsInteger(loc[t].z_cell)

\* C10 as stated: after the boundary loop a radial point (k, w) of the cubic
\* stencil is (k, w) if 0 <= k <= Nr-1, (Nr-1, w) if k > Nr-1 and (|k|-1, -w)
\* if k < 0, and the axial points are those the axial loop left.
FoldAsStated(k, w) ==
    IF k < 0 THEN <<Abs(k) - 1, QNeg(w)>>
    ELSE IF k > Nr - 1 THEN <<Nr - 1, w>> ELSE <<k, w>>

AxialUntouched(t) ==
    /\ loc[t].Sz = loc[t].raw_Sz
    /\ \A k \in 0..3 : loc[t].iz[k] = WrapZ(loc[t].raw_iz[k], Nz)

C10_FoldAsStated ==
    \A t \in Built :
      kernel = "cubic" =>
        /\ \A k \in 0..3 :
             <<loc[t].ir[k], loc[t].Sr[k]>> = FoldAsStated(loc[t].raw_ir[k], loc[t].raw_Sr[k])
        /\ AxialUntouched(t)

\* C10 amended: as stated, except that a reflected index is clamped as well:
\* a point with k < 0 becomes (min(|k|-1, Nr-1), -w).
FoldAmended(k, w) ==
    IF k < 0 THEN <<IF Abs(k) - 1 > Nr - 1 THEN Nr - 1 ELSE Abs(k) - 1, QNeg(w)>>
    ELSE IF k > Nr - 1 THEN <<Nr - 1, w>> ELSE <<k, w>>

C10_FoldAmended ==
    \A t \in Built :
      kernel = "cubic" =>
        /\ \A k \in 0..3 :
             <<loc[t].ir[k], loc[t].Sr[k]>> = FoldAmended(loc[t].raw_ir[k], loc[t].raw_Sr[k])
        /\ AxialUntouched(t)

\* C10 happens: a cubic thread has folded a stencil with a point below the
\* axis whose weight is nonzero, a point inside and a point above Nr-1.
C10_Witness ==
    \E t \in Built :
      /\ kernel = "cubic"
      /\ \E k \in 0..3 : loc[t].raw_ir[k] < 0 /\ loc[t].raw_Sr[k] # Zero
      /\ \E k \in 0..3 : loc[t].raw_ir[k] \in 0..(Nr - 1)
      /\ \E k \in 0..3 : loc[t].raw_ir[k] > Nr - 1

\* The threads that have finished a particle
Finished == {t \in Built : pc[t] = "done"}

\* C2: a particle at z = zmin - eps and one at z = zmin + (Nz*dz - eps) with
\* the same (x, y) get the same wrapped axial indices with the same weights,
\* and the same six gathered fields.
SameAxial(l, m) ==
    IF kernel = "linear"
    THEN /\ l.iz_lower = m.iz_lower /\ l.iz_upper = m.iz_upper
         /\ l.Sz_lower = m.Sz_lower /\ l.Sz_upper = m.Sz_upper
    ELSE l.iz = m.iz /\ l.Sz = m.Sz

PeriodicWith(t, m) == SameAxial(loc[t], m) /\ Written(t) = Gathered(m)

C2_AxialPeriodicity ==
    \A t \in Finished :
      z[t] < zmin => PeriodicWith(t, Locals(x[t], y[t], z[t] + Nz * CellSize(invdz)))

\* C2 happens: a finished particle lies below zmin, off the axis, and its two
\* lowest axial stencil indices were wrapped.
C2_Witness ==
    \E t \in Finished :
      /\ z[t] < zmin /\ x[t] # 0
      /\ IF kernel = "linear" THEN loc[t].raw_z.upper < 0 ELSE loc[t].raw_iz[1] < 0
      /\ Written(t)[2][1] # Zero

\* C6: for a particle with x = y = 0 both kernels use cos = 1, sin = 0 and the
\* mode-1 phase 1, and write Ex = Fr, Ey = Ft, Ez = Fz of the E pass and
\* Bx = Fr, By = Ft, Bz = Fz of the B pass.
C6_OnAxis ==
    \A t \in Built :
      (x[t] = 0 /\ y[t] = 0) =>
        /\ loc[t].cos = One /\ loc[t].sin = Zero
        /\ Exptheta(1, loc[t].cos, loc[t].sin) = <<One, Zero>>
        /\ <<Ex[t], Ey[t], Ez[t]>> = acc[t].E
        /\ pc[t] = "done" => <<Bx[t], By[t], Bz[t]>> = acc[t].B

\* C6 happens: a finished particle on the axis has gathered Fr, Ft and Fz that
\* are nonzero and differ, in both passes.
C6_Witness ==
    \E t \in Finished :
      /\ x[t] = 0 /\ y[t] = 0
      /\ acc[t].E[1] # Zero /\ acc[t].E[2] # Zero /\ acc[t].E[1] # acc[t].E[2]
      /\ acc[t].B[1] # Zero /\ acc[t].B[2] # Zero /\ acc[t].B[1] # acc[t].B[2]

\* The particle of thread t lies beyond the outer radial edge: r > rmin + Nr*dr
Beyond(t) == QLess(QSub(I2Q(Nr), Half), loc[t].r_cell)

\* The whole radial weight of the stencil lies on column Nr-1
AllOnLast(l) ==
    IF kernel = "linear"
    THEN /\ l.ir_lower = Nr - 1 /\ l.ir_upper = Nr - 1
         /\ QAdd(l.Sr_lower, l.Sr_upper) = One /\ l.Sr_guard = Zero
    ELSE /\ \A k \in 0..3 : l.ir[k] = Nr - 1
         /\ Sum4(l.Sr) = One

\* The radius of the last valid radial cell (cell coordinate Nr-1)
LastCellRadius == rmin + Nr * CellSize(invdr) - (CellSize(invdr) \div 2)

\* The particle of thread t can be moved to radius r along its own direction
\* on the lattice of positions
Movable(t, r) ==
    /\ loc[t].rj # 0
    /\ (x[t] * r) % loc[t].rj = 0 /\ (y[t] * r) % loc[t].rj = 0

\* The fields gathered for the particle of thread t moved to radius r
MovedTo(t, r) ==
    Gathered(Locals((x[t] * r) \div loc[t].rj, (y[t] * r) \div loc[t].rj, z[t]))

\* C3 as stated: in both kernels a particle beyond the outer radial edge has
\* its whole radial weight on column Nr-1 and gathers the same fields as a
\* particle of the same angle and z at cell coordinate Nr-1.
C3_OuterClampAsStated ==
    \A t \in Finished :
      Beyond(t) =>
        /\ AllOnLast(loc[t])
        /\ Movable(t, LastCellRadius) => Written(t) = MovedTo(t, LastCellRadius)

\* C3 amended: the statement holds for the linear kernel.  In the cubic
\* kernel a particle with r >= rmin + (Nr + 1/2)*dr has its whole radial
\* weight on column Nr-1 and gathers the same fields as a particle of the same
\* angle and z one cell farther out.
C3_OuterClampAmended ==
    \A t \in Finished :
      IF kernel = "linear"
      THEN Beyond(t) =>
             /\ AllOnLast(loc[t])
             /\ Movable(t, LastCellRadius) => Written(t) = MovedTo(t, LastCellRadius)
      ELSE ~QLess(loc[t].r_cell, I2Q(Nr)) =>
             /\ AllOnLast(loc[t])
             /\ Movable(t, loc[t].rj + CellSize(invdr)) =>
                  Written(t) = MovedTo(t, loc[t].rj + CellSize(invdr))

\* C3 happens: a finished particle of the linear kernel beyond the outer edge,
\* at an angle off the x and y axes, has a counterpart at cell coordinate Nr-1,
\* on a field that differs between the last two columns.
C3_Witness ==
    \E t \in Finished :
      /\ kernel = "linear" /\ Beyond(t)
      /\ x[t] # 0 /\ y[t] # 0
      /\ Movable(t, LastCellRadius)
      /\ grid = FieldArrays("generic", Nz, Nr)
      /\ Written(t)[1][1] # Zero

\* The launch was made on fixture fx
FixtureIs(fx) == grid = FieldArrays(fx, Nz, Nr)

\* What C4 states of the outputs <<Fx, Fy, Fz>> on the fixture with component
\* fx uniform of real part re
UniformOutput(fx, l, out, re) ==
    CASE fx = "z" -> out[3] = I2Q(re)
      [] fx = "r" -> out[1] = QMul(l.cos, I2Q(re)) /\ out[2] = QMul(l.sin, I2Q(re))
      [] OTHER -> out[1] = QNeg(QMul(l.sin, I2Q(re))) /\ out[2] = QMul(l.cos, I2Q(re))

UniformGathered(t) ==
    \A fx \in {"r", "t", "z"} :
      FixtureIs(fx) =>
        /\ UniformOutput(fx, loc[t], Written(t)[1], UniformValue("E")[1])
        /\ UniformOutput(fx, loc[t], Written(t)[2], UniformValue("B")[1])

\* C4 as stated: with one mode-0 component uniform of value c and the other
\* arrays of the field zero, at every particle position and in both kernels
\* the gathered component is Re(c): Ez = Re(c) for the axial array, Ex =
\* cos*Re(c), Ey = sin*Re(c) for the radial one, Ex = -sin*Re(c), Ey =
\* cos*Re(c) for the azimuthal one.
C4_UniformAsStated == \A t \in Finished : UniformGathered(t)

\* No radial stencil point of thread t lies below the axis before the boundary
\* handling: r >= rmin + dr/2 (linear), r >= rmin + 3*dr/2 (cubic)
OffAxisStencil(t) ==
    IF kernel = "linear" THEN loc[t].raw_r.lower >= 0 ELSE loc[t].raw_ir[0] >= 0

\* C4 amended: as stated, for the particles whose radial stencil has no point
\* below the axis (the outer radial edge and beyond included).
C4_UniformAmended == \A t \in Finished : OffAxisStencil(t) => UniformGathered(t)

\* C4 happens: a finished particle beyond the outer radial edge, at an angle
\* off the axes, on the fixture with the radial component uniform.
C4_Witness ==
    \E t \in Finished :
      /\ FixtureIs("r") /\ Beyond(t) /\ OffAxisStencil(t)
      /\ x[t] # 0 /\ y[t] # 0

\* After the launch every entry holds what its own particle, the geometry and
\* the grid determine, whatever the schedule and whatever the entry held
EachFromOwnParticle ==
    AllDone => \A i \in DOMAIN x : Written(i) = Gathered(Locals(x[i], y[i], z[i]))

\* A step that changes entry j of an output array is a step of thread j alone
OwnEntryOnly ==
    \A j \in DOMAIN x :
      Written(j)' # Written(j) =>
        /\ pc'[j] # pc[j]
        /\ \A t \in Threads \ {j} : pc'[t] = pc[t]

\* A step of a thread with i >= N changes no output
SurplusWritesNothing ==
    \A t \in Threads : (t >= NumParticles /\ pc'[t] # pc[t]) => outputs' = outputs

\* C7: under every interleaving of the threads, thread i writes only entry i
\* of the six output arrays, threads with i >= N write nothing, and when all
\* threads are done entry i holds the value determined by particle i's
\* position, the geometry and the grid alone.
C7_PerParticleIndependence ==
    /\ []EachFromOwnParticle
    /\ [][OwnEntryOnly /\ SurplusWritesNothing]_vars

\* C7 happens: a launch on at least two particles at different positions has
\* finished, leaving different fields on them, none of them the prior content.
C7_Witness ==
    /\ AllDone /\ NumParticles >= 2
    /\ <<x[0], y[0], z[0]>> # <<x[1], y[1], z[1]>>
    /\ Written(0) # Written(1)
    /\ \A i \in {0, 1}, f \in {1, 2}, c \in {1, 2, 3} : Written(i)[f][c] \notin {Zero, Seven}

\* After a second call the outputs are those the first call left
SecondCallSame == (again /\ AllDone) => outputs = first

\* C8: no step of a gather changes the positions, the geometry or the grid
\* arrays; when the call is over each of the N entries of each output array
\* holds a value that does not depend on what the arrays held before; a
\* second call on the same inputs leaves the outputs of the first.
C8_OverwriteAndFrame ==
    /\ [][inputs' = inputs]_vars
    /\ [](AllDone => \A i \in DOMAIN x : Written(i) = Gathered(Locals(x[i], y[i], z[i])))
    /\ []SecondCallSame

\* C8 happens: the second call has finished on outputs that the first call
\* had changed from a nonzero prior content.
C8_Witness ==
    /\ again /\ AllDone
    /\ first = outputs
    /\ \A f \in {1, 2}, c \in {1, 2, 3} : Written(0)[f][c] \notin {Zero, Seven}

====
